---- MODULE Spec2Model ----
(***************************************************************************)
(* Model of the MikroTik RouterBoot hard_config driver                     *)
(* (drivers/platform/mikrotik/rb_hardconfig.c): the one-time load of the   *)
(* hard_config blob, the per-tag sysfs attributes and the on-demand        *)
(* unpacking of the WLAN calibration data (raw RLE, ERD and LZOR records). *)
(*                                                                         *)
(* Buffers are byte sequences; a C offset i is element i+1 of a sequence.  *)
(* routerboot.h / routerboot.c are not part of the sources at hand: the    *)
(* tag scanner, the run-length decoder, the two routerboot renderers and   *)
(* the constants of routerboot.h are modelled from the specification.      *)
(* lzo1x_decompress_safe is the kernel's library routine: its verdict and  *)
(* output for the record stored on the device are an input of the model.   *)
(***************************************************************************)
EXTENDS Integers, Sequences, FiniteSets, TLC

VARIABLES
    phase,              \* "boot" before rb_hardconfig_init, then "ready" or "failed"
    mtd,                \* the hard_config flash partition (environment)
    lzo,                \* what lzo1x_decompress_safe makes of the stored record
    hc_buf,             \* contents of the blob buffer (<<>> while hc_buf is NULL)
    hc_buf_ptr,         \* "NULL" or "heap"
    hc_buflen,
    hc_kobj,            \* "NULL" or "kobj"
    hc_attrs,           \* [index -> [pld_ofs, pld_len]] of the static table
    hc_wlandata_battr,  \* [pld_ofs, pld_len] of the binary attribute
    sysfs,              \* names of the sysfs entries created under hc_kobj
    heap,               \* long-lived allocations that are live
    init_ret,           \* return value of rb_hardconfig_init
    init_env,           \* what the environment made fail during init
    req                 \* log of the most recent request handler run

vars == <<phase, mtd, lzo, hc_buf, hc_buf_ptr, hc_buflen, hc_kobj, hc_attrs,
          hc_wlandata_battr, sysfs, heap, init_ret, init_env, req>>

----------------------------------------------------------------------------
(* Bounds of the model.                                                    *)

\* largest read offset a request is issued with
MaxOff == 3
\* largest read count a request is issued with
MaxCount == 2
\* capacity of the calibration output buffer (RB_ART_SIZE is 0x10000 on the
\* device; the model works on a scaled-down buffer)
ArtSize == 16
\* length of the dictionary-priming prefix (1380 bytes on the device)
PrefixLen == 8
\* how many bytes of the memory behind a buffer the model holds
GarbageLen == 12

----------------------------------------------------------------------------
(* Program constants.                                                      *)

ENOENT == -2
EIO == -5
ENOMEM == -12
ENODEV == -19
EINVAL == -22
EFBIG == -27
ENOSPC == -28
ENODATA == -61

LZO_E_OK == 0
LZO_E_OUTPUT_OVERRUN == -5
LZO_E_LOOKBEHIND_OVERRUN == -6
LZO_E_INPUT_NOT_CONSUMED == -8

RB_ID_FLASH_INFO == 3
RB_ID_MAC_ADDRESS_PACK == 4
RB_ID_BOARD_PRODUCT_CODE == 5
RB_ID_BIOS_VERSION == 6
RB_ID_SERIAL_NUMBER == 11
RB_ID_MEMORY_SIZE == 13
RB_ID_MAC_ADDRESS_COUNT == 14
RB_ID_HW_OPTIONS == 21
RB_ID_WLAN_DATA == 22
RB_ID_BOARD_IDENTIFIER == 23
RB_ID_PRODUCT_NAME == 33
RB_ID_DEFCONF == 38
RB_ID_BOARD_REVISION == 39

\* size_t is 32 or 64 bits wide on the device.  The model keeps it 31 bits
\* wide, the widest the checker's integers allow; every length of the model
\* is far below that, so the only wrap is that of a subtraction below zero.
SIZE_MAX == 2147483647

\* a - b and a + b in size_t arithmetic (modulo SIZE_MAX + 1)
SubSizeT(a, b) == IF a >= b THEN a - b ELSE (SIZE_MAX - (b - a)) + 1
AddSizeT(a, b) == IF a > SIZE_MAX - b THEN (a - (SIZE_MAX - b)) - 1 ELSE a + b

\* truncation to u16 (pld_ofs, pld_len)
U16(x) == x % 65536

\* sizeof(u32), the size of a magic number
MagicSize == 4

----------------------------------------------------------------------------
(* Bytes, words and the magic numbers.                                     *)

\* byte i (a C offset) of memory m
ByteAt(m, i) == m[i + 1]

\* *(u32 *)(m + i) on a little-endian CPU
U32At(m, i) ==
    ByteAt(m, i) + 256 * ByteAt(m, i + 1) + 65536 * ByteAt(m, i + 2)
        + 16777216 * ByteAt(m, i + 3)

U32Of(s) == U32At(s, 0)

MagicHardBytes == <<72, 97, 114, 100>>
MagicSoftBytes == <<83, 111, 102, 116>>
MagicLzorBytes == <<76, 90, 79, 82>>
MagicErdBytes == <<69, 82, 68, 0>>

RB_MAGIC_HARD == U32Of(MagicHardBytes)
RB_MAGIC_LZOR == U32Of(MagicLzorBytes)
RB_MAGIC_ERD == U32Of(MagicErdBytes)

\* the largest calibration payload: capacity of the output buffer
RB_ART_SIZE == ArtSize

\* the first bytes of hc_lzor_prefix, as many as the model's prefix is long
PrefixHead ==
    <<0, 5, 76, 76, 68, 0, 52, 254, 254, 52, 17, 60, 30, 60, 46, 60,
      76, 52, 0, 82, 98, 146, 162, 178>>
hc_lzor_prefix == [i \in 1..PrefixLen |-> PrefixHead[((i - 1) % Len(PrefixHead)) + 1]]

Min(a, b) == IF a <= b THEN a ELSE b

\* the bytes [from, from + n) of memory m
Bytes(m, from, n) == SubSeq(m, from + 1, from + n)

\* memcpy(buf + at, data, Len(data)) on a buffer held as a sequence
Poke(buf, at, data) ==
    [i \in 1..Len(buf) |->
        IF i > at /\ i <= at + Len(data) THEN data[i - at] ELSE buf[i]]

----------------------------------------------------------------------------
(* routerboot_tag_find: scan a region of tag records (u16 id, u16 length,  *)
(* payload) for the first record with the identifier.  The region is the   *)
(* bytes [base, base + buflen) of memory m; m ends where mapped memory     *)
(* ends, so a region longer than m makes the scan fault.                   *)

TagHeader(id, len) == <<id % 256, id \div 256, len % 256, len \div 256>>

RECURSIVE TagScan(_, _, _, _, _, _)
TagScan(m, base, buflen, tag_id, p, seen) ==
    IF p + 4 > buflen THEN
        [ret |-> ENOENT, fault |-> FALSE, ofs |-> 0, len |-> 0, seen |-> seen]
    ELSE IF base + p + 4 > Len(m) THEN
        [ret |-> ENOENT, fault |-> TRUE, ofs |-> 0, len |-> 0, seen |-> seen]
    ELSE
        LET id == ByteAt(m, base + p) + 256 * ByteAt(m, base + p + 1)
            len == ByteAt(m, base + p + 2) + 256 * ByteAt(m, base + p + 3)
            sn == seen \cup ((base + p)..(base + p + 3))
        IN  IF id = tag_id THEN
                [ret |-> 0, fault |-> FALSE, ofs |-> U16(p + 4), len |-> len,
                 seen |-> sn]
            ELSE TagScan(m, base, buflen, tag_id, p + 4 + len, sn)

\* ret is 0 or -ENOENT; ofs and len are *pld_ofs and *pld_len; seen is the
\* set of offsets of m the scan read; fault tells that it ran off memory
routerboot_tag_find(m, base, buflen, tag_id) ==
    TagScan(m, base, buflen, tag_id, 0, {})

----------------------------------------------------------------------------
(* routerboot_rle_decode: expand (value, count) pairs into at most cap     *)
(* bytes.  A trailing half pair is corruption; a run that does not fit     *)
(* stops the decoder.  out is what was written before it stopped.          *)

Run(v, n) == [i \in 1..n |-> v]

RECURSIVE RleGo(_, _, _)
RleGo(in, cap, out) ==
    IF Len(in) = 0 THEN [ret |-> 0, out |-> out]
    ELSE IF Len(in) = 1 THEN [ret |-> EINVAL, out |-> out]
    ELSE IF Len(out) + in[2] > cap THEN [ret |-> ENOSPC, out |-> out]
    ELSE RleGo(SubSeq(in, 3, Len(in)), cap, out \o Run(in[1], in[2]))

routerboot_rle_decode(in, cap) == RleGo(in, cap, <<>>)

----------------------------------------------------------------------------
(* The renderers.  Each returns the show routine's return value (the       *)
(* number of characters printed, or a negative errno) and the values it    *)
(* printed.                                                                *)

\* hc_hwopts: the known hw_options bits and the lengths of their labels
hc_hwopts ==
    <<[bit |-> 0, str |-> 9], [bit |-> 1, str |-> 9], [bit |-> 2, str |-> 9],
      [bit |-> 3, str |-> 11], [bit |-> 14, str |-> 9], [bit |-> 15, str |-> 9],
      [bit |-> 16, str |-> 12], [bit |-> 17, str |-> 12], [bit |-> 18, str |-> 9],
      [bit |-> 20, str |-> 9], [bit |-> 21, str |-> 9], [bit |-> 22, str |-> 11],
      [bit |-> 29, str |-> 9]>>

\* data & BIT(b)
BitSet(data, b) == (data \div (2 ^ b)) % 2 = 1

RECURSIVE SumLens(_, _)
SumLens(data, i) ==
    IF i > Len(hc_hwopts) THEN 0
    ELSE hc_hwopts[i].str + 2 + (IF BitSet(data, hc_hwopts[i].bit) THEN 4 ELSE 5) + 1
         + SumLens(data, i + 1)

hc_tag_show_mac(pld, pld_len) ==
    IF 8 # pld_len THEN [ret |-> EINVAL, text |-> <<>>]
    ELSE [ret |-> 18, text |-> SubSeq(pld, 1, 6)]

hc_tag_show_hwoptions(pld, pld_len) ==
    IF 4 # pld_len THEN [ret |-> EINVAL, text |-> <<>>]
    ELSE LET data == U32Of(pld)
         IN  [ret |-> 19 + SumLens(data, 1),
              text |-> <<data>> \o
                       [i \in 1..Len(hc_hwopts) |->
                           IF BitSet(data, hc_hwopts[i].bit) THEN 1 ELSE 0]]

\* routerboot_tag_show_string: the payload as a plain string
routerboot_tag_show_string(pld, pld_len) == [ret |-> pld_len, text |-> pld]

\* routerboot_tag_show_u32s: the payload as a list of 32-bit integers,
\* one "0x%08x\n" per word
routerboot_tag_show_u32s(pld, pld_len) ==
    IF pld_len % 4 # 0 THEN [ret |-> EINVAL, text |-> <<>>]
    ELSE [ret |-> 11 * (pld_len \div 4),
          text |-> [i \in 1..(pld_len \div 4) |-> U32At(pld, 4 * (i - 1))]]

\* hc_attrs[]: tag_id, tshow and the name of kattr ("" where the table
\* leaves kattr, and with it kattr.show, unset)
HcAttrTable ==
    <<[tag_id |-> RB_ID_FLASH_INFO, tshow |-> "u32s", kattr |-> "flash_info"],
      [tag_id |-> RB_ID_MAC_ADDRESS_PACK, tshow |-> "mac", kattr |-> "mac_base"],
      [tag_id |-> RB_ID_BOARD_PRODUCT_CODE, tshow |-> "string", kattr |-> "board_product_code"],
      [tag_id |-> RB_ID_BIOS_VERSION, tshow |-> "string", kattr |-> "booter_version"],
      [tag_id |-> RB_ID_SERIAL_NUMBER, tshow |-> "string", kattr |-> "board_serial"],
      [tag_id |-> RB_ID_MEMORY_SIZE, tshow |-> "u32s", kattr |-> "mem_size"],
      [tag_id |-> RB_ID_MAC_ADDRESS_COUNT, tshow |-> "u32s", kattr |-> "mac_count"],
      [tag_id |-> RB_ID_HW_OPTIONS, tshow |-> "hwoptions", kattr |-> "hw_options"],
      [tag_id |-> RB_ID_WLAN_DATA, tshow |-> "NULL", kattr |-> ""],
      [tag_id |-> RB_ID_BOARD_IDENTIFIER, tshow |-> "string", kattr |-> "board_identifier"],
      [tag_id |-> RB_ID_PRODUCT_NAME, tshow |-> "string", kattr |-> "product_name"],
      [tag_id |-> RB_ID_DEFCONF, tshow |-> "string", kattr |-> "defconf"],
      [tag_id |-> RB_ID_BOARD_REVISION, tshow |-> "string", kattr |-> "board_revision"]>>

AttrIdx == 1..Len(HcAttrTable)

\* hc_attr->tshow(pld, pld_len, buf)
CallTshow(tshow, pld, pld_len) ==
    CASE tshow = "u32s" -> routerboot_tag_show_u32s(pld, pld_len)
      [] tshow = "mac" -> hc_tag_show_mac(pld, pld_len)
      [] tshow = "string" -> routerboot_tag_show_string(pld, pld_len)
      [] tshow = "hwoptions" -> hc_tag_show_hwoptions(pld, pld_len)

----------------------------------------------------------------------------
(* The unpacking pipeline.  Each routine returns the log of one call: the  *)
(* return value, the output buffer and *outlen, and what the call did.     *)

\* content of a byte that was never written
UNINIT == -1

\* the offsets [lo, lo + n)
Range(lo, n) == lo..(lo + n - 1)

\* the log of a call that has done nothing yet
UnpackNone(cap) ==
    [ret |-> 0, oops |-> FALSE, outlen |-> cap,
     outbuf |-> [i \in 1..cap |-> UNINIT],
     tofs |-> 0, tlen |-> 0, reads |-> {},
     strategy |-> "none", magic |-> 0, s_ofs |-> 0, s_len |-> 0,
     tag_called |-> FALSE, tag_ret |-> 0, tag_ofs |-> 0, tag_len |-> 0,
     lzo_called |-> FALSE, lzo_ret |-> 0, rle_called |-> FALSE,
     out_written |-> FALSE, concat_prefix |-> 0, concat_payload |-> 0,
     temp |-> "none", temp_frees |-> 0,
     scanned |-> FALSE, d |-> 0, probes |-> <<>>, matched |-> FALSE, k |-> 0,
     tail_ofs |-> 0, tail_len |-> 0]

\* lzo1x_decompress_safe(in, in_len, out, &out_len) with out_len = cap on
\* entry: z is the library's verdict on the stored record.  The library
\* never writes more than cap bytes.
lzo1x_decompress_safe(z, cap) ==
    IF Len(z.out) > cap
    THEN [ret |-> LZO_E_OUTPUT_OVERRUN, out |-> SubSeq(z.out, 1, cap)]
    ELSE [ret |-> z.ret, out |-> z.out]

\* a faulty variant of hc_wlan_data_unpack_erd: the embedded tag's length is
\* not compared with the remaining record bytes
hc_wlan_data_unpack_erd_nolencheck(m, base, inlen, cap, z, U) ==
    LET t == routerboot_tag_find(m, base, inlen, 1)
        U1 == [U EXCEPT !.strategy = "erd", !.s_ofs = base, !.s_len = inlen,
                        !.tag_called = TRUE, !.tag_ret = t.ret,
                        !.tag_ofs = t.ofs, !.tag_len = t.len,
                        !.reads = @ \cup t.seen]
    IN  IF t.fault THEN [U1 EXCEPT !.oops = TRUE]
        ELSE IF t.ret # 0 THEN [U1 EXCEPT !.ret = t.ret]
        ELSE
            LET r == lzo1x_decompress_safe(z, cap)
                from == base + t.ofs
            IN  [U1 EXCEPT !.lzo_called = TRUE, !.lzo_ret = r.ret,
                           !.reads = @ \cup Range(from, Min(t.len, Len(m) - from)),
                           !.out_written = Len(r.out) > 0,
                           !.outbuf = Poke(@, 0, r.out),
                           !.outlen = Len(r.out),
                           !.ret = r.ret]

\* m is the blob followed by the memory behind it, inbuf = m + base
hc_wlan_data_unpack_erd(m, base, inlen, cap, z, U) ==
    LET t == routerboot_tag_find(m, base, inlen, 1)
        U1 == [U EXCEPT !.strategy = "erd", !.s_ofs = base, !.s_len = inlen,
                        !.tag_called = TRUE, !.tag_ret = t.ret,
                        !.tag_ofs = t.ofs, !.tag_len = t.len,
                        !.reads = @ \cup t.seen]
    IN  IF t.fault THEN [U1 EXCEPT !.oops = TRUE]
        ELSE IF t.ret # 0 THEN [U1 EXCEPT !.ret = t.ret]
        ELSE IF t.len > inlen THEN [U1 EXCEPT !.ret = EINVAL]
        ELSE
            LET r == lzo1x_decompress_safe(z, cap)
                from == base + t.ofs
            IN  [U1 EXCEPT !.lzo_called = TRUE, !.lzo_ret = r.ret,
                           !.reads = @ \cup Range(from, Min(t.len, Len(m) - from)),
                           !.out_written = Len(r.out) > 0,
                           !.outbuf = Poke(@, 0, r.out),
                           !.outlen = Len(r.out),
                           !.ret = r.ret]

\* the alignment scan: needle walks the words of tempbuf, whose first d
\* bytes are filled; smem is tempbuf as the CPU reads it
RECURSIVE ScanErd(_, _, _, _)
ScanErd(smem, d, p, probes) ==
    LET pr == Append(probes, p)
    IN  IF U32At(smem, p) = RB_MAGIC_ERD THEN
            [found |-> TRUE, k |-> p, probes |-> pr]
        ELSE IF p + 4 >= d THEN
            [found |-> FALSE, k |-> p, probes |-> pr]
        ELSE ScanErd(smem, d, p + 4, pr)

\* a faulty variant of hc_wlan_data_unpack_lzor: LZO_E_INPUT_NOT_CONSUMED is
\* taken for a failure like every other return value but LZO_E_OK
hc_wlan_data_unpack_lzor_eoffatal(m, base, inlen, cap, z, g, tempbuf_ok, U) ==
    LET lzo_len == AddSizeT(inlen, PrefixLen)
        Us == [U EXCEPT !.strategy = "lzor", !.s_ofs = base, !.s_len = inlen]
    IN
    IF lzo_len > cap THEN [Us EXCEPT !.ret = EFBIG]
    ELSE
    LET Ua == [Us EXCEPT !.temp = IF tempbuf_ok THEN "heap" ELSE "NULL",
                        !.out_written = TRUE,
                        !.concat_prefix = PrefixLen,
                        !.concat_payload = inlen,
                        !.reads = @ \cup Range(base, Min(inlen, Len(m) - base))]
    IN
    IF inlen > cap - PrefixLen THEN
        \* memcpy runs over the end of outbuf and off the end of memory
        [Ua EXCEPT !.oops = TRUE]
    ELSE
    LET outbuf1 == Poke(Poke(U.outbuf, 0, hc_lzor_prefix), PrefixLen,
                        Bytes(m, base, inlen))
        r == lzo1x_decompress_safe(z, cap)
        d == Len(r.out)
        Ub == [Ua EXCEPT !.outbuf = outbuf1, !.lzo_called = TRUE,
                         !.lzo_ret = r.ret, !.d = d]
        fatal == r.ret # 0
    IN
    IF ~tempbuf_ok /\ (d > 0 \/ ~fatal) THEN
        \* the decompressor writes, or the scan reads, through NULL
        [Ub EXCEPT !.oops = TRUE]
    ELSE IF fatal THEN [Ub EXCEPT !.ret = r.ret, !.temp_frees = 1]
    ELSE
    LET smem == r.out \o g
        sc == ScanErd(smem, d, 0, <<>>)
        Uc == [Ub EXCEPT !.scanned = TRUE, !.probes = sc.probes,
                         !.matched = sc.found, !.k = sc.k]
    IN
    IF ~sc.found THEN [Uc EXCEPT !.ret = ENODATA, !.temp_frees = 1]
    ELSE
    LET needle == sc.k + 4
        templen == SubSizeT(d, needle)
        t == routerboot_tag_find(smem, needle, templen, 1)
        Ud == [Uc EXCEPT !.tail_ofs = needle, !.tail_len = templen,
                         !.tag_called = TRUE, !.tag_ret = t.ret,
                         !.tag_ofs = t.ofs, !.tag_len = t.len]
    IN
    IF t.fault THEN [Ud EXCEPT !.oops = TRUE]
    ELSE IF t.ret # 0 THEN [Ud EXCEPT !.ret = t.ret, !.temp_frees = 1]
    ELSE IF t.len > templen THEN [Ud EXCEPT !.ret = EINVAL, !.temp_frees = 1]
    ELSE IF needle + t.ofs + t.len > Len(smem) THEN
        \* the decoder reads off the end of memory
        [Ud EXCEPT !.rle_called = TRUE, !.oops = TRUE]
    ELSE
    LET rr == routerboot_rle_decode(Bytes(smem, needle + t.ofs, t.len), cap)
    IN  [Ud EXCEPT !.rle_called = TRUE,
                   !.outbuf = Poke(@, 0, rr.out),
                   !.outlen = Len(rr.out),
                   !.ret = rr.ret, !.temp_frees = 1]

\* g is what the bytes of tempbuf that the decompressor did not fill hold;
\* tempbuf_ok tells whether kmalloc returned a buffer
hc_wlan_data_unpack_lzor(m, base, inlen, cap, z, g, tempbuf_ok, U) ==
    LET lzo_len == AddSizeT(inlen, PrefixLen)
        Us == [U EXCEPT !.strategy = "lzor", !.s_ofs = base, !.s_len = inlen]
    IN
    IF lzo_len > cap THEN [Us EXCEPT !.ret = EFBIG]
    ELSE
    LET Ua == [Us EXCEPT !.temp = IF tempbuf_ok THEN "heap" ELSE "NULL",
                        !.out_written = TRUE,
                        !.concat_prefix = PrefixLen,
                        !.concat_payload = inlen,
                        !.reads = @ \cup Range(base, Min(inlen, Len(m) - base))]
    IN
    IF inlen > cap - PrefixLen THEN
        \* memcpy runs over the end of outbuf and off the end of memory
        [Ua EXCEPT !.oops = TRUE]
    ELSE
    LET outbuf1 == Poke(Poke(U.outbuf, 0, hc_lzor_prefix), PrefixLen,
                        Bytes(m, base, inlen))
        r == lzo1x_decompress_safe(z, cap)
        d == Len(r.out)
        Ub == [Ua EXCEPT !.outbuf = outbuf1, !.lzo_called = TRUE,
                         !.lzo_ret = r.ret, !.d = d]
        fatal == r.ret # 0 /\ r.ret # LZO_E_INPUT_NOT_CONSUMED
    IN
    IF ~tempbuf_ok /\ (d > 0 \/ ~fatal) THEN
        \* the decompressor writes, or the scan reads, through NULL
        [Ub EXCEPT !.oops = TRUE]
    ELSE IF fatal THEN [Ub EXCEPT !.ret = r.ret, !.temp_frees = 1]
    ELSE
    LET smem == r.out \o g
        sc == ScanErd(smem, d, 0, <<>>)
        Uc == [Ub EXCEPT !.scanned = TRUE, !.probes = sc.probes,
                         !.matched = sc.found, !.k = sc.k]
    IN
    IF ~sc.found THEN [Uc EXCEPT !.ret = ENODATA, !.temp_frees = 1]
    ELSE
    LET needle == sc.k + 4
        templen == SubSizeT(d, needle)
        t == routerboot_tag_find(smem, needle, templen, 1)
        Ud == [Uc EXCEPT !.tail_ofs = needle, !.tail_len = templen,
                         !.tag_called = TRUE, !.tag_ret = t.ret,
                         !.tag_ofs = t.ofs, !.tag_len = t.len]
    IN
    IF t.fault THEN [Ud EXCEPT !.oops = TRUE]
    ELSE IF t.ret # 0 THEN [Ud EXCEPT !.ret = t.ret, !.temp_frees = 1]
    ELSE IF t.len > templen THEN [Ud EXCEPT !.ret = EINVAL, !.temp_frees = 1]
    ELSE IF needle + t.ofs + t.len > Len(smem) THEN
        \* the decoder reads off the end of memory
        [Ud EXCEPT !.rle_called = TRUE, !.oops = TRUE]
    ELSE
    LET rr == routerboot_rle_decode(Bytes(smem, needle + t.ofs, t.len), cap)
    IN  [Ud EXCEPT !.rle_called = TRUE,
                   !.outbuf = Poke(@, 0, rr.out),
                   !.outlen = Len(rr.out),
                   !.ret = rr.ret, !.temp_frees = 1]

\* a faulty variant of hc_wlan_data_unpack: the ERD strategy is given the
\* record with its magic, not the record past it
hc_wlan_data_unpack_keepmagic(buf, buflen, tofs, tlen, cap, z, g, tempbuf_ok) ==
    LET U0 == [UnpackNone(cap) EXCEPT !.tofs = tofs, !.tlen = tlen]
    IN
    IF tofs + tlen > buflen THEN [U0 EXCEPT !.ret = EIO]
    ELSE
    LET m == buf \o g
        magic == U32At(m, tofs)
        U1 == [U0 EXCEPT !.magic = magic, !.reads = Range(tofs, MagicSize)]
    IN
    IF magic = RB_MAGIC_LZOR THEN
        hc_wlan_data_unpack_lzor(m, tofs + MagicSize, SubSizeT(tlen, MagicSize),
            cap, z, g, tempbuf_ok, U1)
    ELSE IF magic = RB_MAGIC_ERD THEN
        hc_wlan_data_unpack_erd(m, tofs, tlen, cap, z, U1)
    ELSE
        LET rr == routerboot_rle_decode(Bytes(m, tofs, tlen), cap)
        IN  [U1 EXCEPT !.strategy = "raw", !.s_ofs = tofs, !.s_len = tlen,
                       !.rle_called = TRUE,
                       !.reads = @ \cup Range(tofs, tlen),
                       !.out_written = Len(rr.out) > 0,
                       !.outbuf = Poke(@, 0, rr.out),
                       !.outlen = Len(rr.out),
                       !.ret = rr.ret]

\* buf is hc_buf, g the memory behind it
hc_wlan_data_unpack(buf, buflen, tofs, tlen, cap, z, g, tempbuf_ok) ==
    LET U0 == [UnpackNone(cap) EXCEPT !.tofs = tofs, !.tlen = tlen]
    IN
    IF tofs + tlen > buflen THEN [U0 EXCEPT !.ret = EIO]
    ELSE
    LET m == buf \o g
        magic == U32At(m, tofs)
        U1 == [U0 EXCEPT !.magic = magic, !.reads = Range(tofs, MagicSize)]
    IN
    IF magic = RB_MAGIC_LZOR THEN
        hc_wlan_data_unpack_lzor(m, tofs + MagicSize, SubSizeT(tlen, MagicSize),
            cap, z, g, tempbuf_ok, U1)
    ELSE IF magic = RB_MAGIC_ERD THEN
        hc_wlan_data_unpack_erd(m, tofs + MagicSize, SubSizeT(tlen, MagicSize),
            cap, z, U1)
    ELSE
        LET rr == routerboot_rle_decode(Bytes(m, tofs, tlen), cap)
        IN  [U1 EXCEPT !.strategy = "raw", !.s_ofs = tofs, !.s_len = tlen,
                       !.rle_called = TRUE,
                       !.reads = @ \cup Range(tofs, tlen),
                       !.out_written = Len(rr.out) > 0,
                       !.outbuf = Poke(@, 0, rr.out),
                       !.outlen = Len(rr.out),
                       !.ret = rr.ret]

----------------------------------------------------------------------------
(* The request handlers.                                                   *)

\* a faulty variant of hc_attr_show: a retained length of 0 is not refused
hc_attr_show_nolencheck(i, g) ==
    LET a == hc_attrs[i]
        R == [op |-> "show", attr |-> i, handler |-> TRUE, ret |-> 0,
              oops |-> FALSE, renderer |-> "none", text |-> <<>>]
        m == hc_buf \o g
    IN  IF HcAttrTable[i].tshow = "NULL" \/ a.pld_ofs + a.pld_len > Len(m)
        THEN [R EXCEPT !.oops = TRUE, !.renderer = HcAttrTable[i].tshow]
        ELSE
            LET t == CallTshow(HcAttrTable[i].tshow,
                               Bytes(m, a.pld_ofs, a.pld_len), a.pld_len)
            IN  [R EXCEPT !.renderer = HcAttrTable[i].tshow,
                          !.ret = t.ret, !.text = t.text]

\* hc_attr_show for entry i of hc_attrs; g is the memory behind hc_buf
hc_attr_show(i, g) ==
    LET a == hc_attrs[i]
        R == [op |-> "show", attr |-> i, handler |-> TRUE, ret |-> 0,
              oops |-> FALSE, renderer |-> "none", text |-> <<>>]
        m == hc_buf \o g
    IN  IF a.pld_len = 0 THEN [R EXCEPT !.ret = ENOENT]
        ELSE IF HcAttrTable[i].tshow = "NULL" \/ a.pld_ofs + a.pld_len > Len(m)
        THEN
            \* a call through a NULL tshow, or a payload off the end of memory
            [R EXCEPT !.oops = TRUE, !.renderer = HcAttrTable[i].tshow]
        ELSE
            LET t == CallTshow(HcAttrTable[i].tshow,
                               Bytes(m, a.pld_ofs, a.pld_len), a.pld_len)
            IN  [R EXCEPT !.renderer = HcAttrTable[i].tshow,
                          !.ret = t.ret, !.text = t.text]

\* the log of a wlan_data read that has done nothing yet
BinReadNone(off, count) ==
    [op |-> "bin_read", handler |-> TRUE, off |-> off, count |-> count,
     alloc |-> "ok",
     ret |-> 0, oops |-> FALSE, unpacked |-> FALSE,
     u |-> UnpackNone(RB_ART_SIZE),
     out |-> "none", out_frees |-> 0, copied |-> <<>>]

\* a faulty variant of BinReadCopy: count is not cut down to what is left
\* of the decoded data
BinReadCopy_noclamp(R, u, off, count) ==
    LET R1 == [R EXCEPT !.out = "heap", !.unpacked = TRUE, !.u = u,
                        !.alloc = IF u.temp = "NULL" THEN "tempbuf" ELSE "ok"]
    IN  IF u.oops THEN [R1 EXCEPT !.oops = TRUE]
        ELSE IF u.ret # 0 THEN [R1 EXCEPT !.ret = u.ret, !.out_frees = 1]
        ELSE IF off >= u.outlen THEN [R1 EXCEPT !.ret = 0, !.out_frees = 1]
        ELSE [R1 EXCEPT !.copied = Bytes(u.outbuf, off, count),
                        !.ret = count, !.out_frees = 1]

\* the tail of hc_wlan_data_bin_read, after hc_wlan_data_unpack returned u
BinReadCopy(R, u, off, count) ==
    LET R1 == [R EXCEPT !.out = "heap", !.unpacked = TRUE, !.u = u,
                        !.alloc = IF u.temp = "NULL" THEN "tempbuf" ELSE "ok"]
    IN  IF u.oops THEN [R1 EXCEPT !.oops = TRUE]
        ELSE IF u.ret # 0 THEN [R1 EXCEPT !.ret = u.ret, !.out_frees = 1]
        ELSE IF off >= u.outlen THEN [R1 EXCEPT !.ret = 0, !.out_frees = 1]
        ELSE
            LET cnt == IF off + count > u.outlen THEN u.outlen - off ELSE count
            IN  [R1 EXCEPT !.copied = Bytes(u.outbuf, off, cnt),
                           !.ret = cnt, !.out_frees = 1]

\* hc_wlan_data_bin_read; alloc tells which kmalloc of the request fails
hc_wlan_data_bin_read(off, count, g, alloc) ==
    LET w == hc_wlandata_battr
        R == BinReadNone(off, count)
    IN  IF w.pld_len = 0 THEN [R EXCEPT !.ret = ENOENT]
        ELSE IF w.pld_len > RB_ART_SIZE THEN [R EXCEPT !.ret = EFBIG]
        ELSE IF alloc = "outbuf" THEN
            [R EXCEPT !.ret = ENOMEM, !.out = "NULL", !.alloc = "outbuf"]
        ELSE BinReadCopy(R,
                 hc_wlan_data_unpack(hc_buf, hc_buflen, w.pld_ofs, w.pld_len,
                                     RB_ART_SIZE, lzo, g, alloc # "tempbuf"),
                 off, count)

\* a request for a file that was never created: sysfs answers -ENOENT and
\* no handler runs
NoSuchAttr(i) ==
    [op |-> "show", attr |-> i, handler |-> FALSE, ret |-> ENOENT,
     oops |-> FALSE, renderer |-> "none", text |-> <<>>]
NoSuchBin(off, count) ==
    [BinReadNone(off, count) EXCEPT !.handler = FALSE, !.ret = ENOENT]

----------------------------------------------------------------------------
(* rb_hardconfig_init.                                                     *)

\* the loop over hc_attrs: the located payloads
LocateAttr(buf, buflen, i) ==
    LET t == routerboot_tag_find(buf, MagicSize, buflen - MagicSize,
                                 HcAttrTable[i].tag_id)
    IN  IF t.ret # 0 THEN [found |-> FALSE, pld_ofs |-> 0, pld_len |-> 0]
        ELSE [found |-> TRUE, pld_ofs |-> U16(t.ofs + MagicSize),
              pld_len |-> t.len]

\* the branch taken for entry i once its tag was found
IsWlanBin(i, loc) ==
    RB_ID_WLAN_DATA = HcAttrTable[i].tag_id /\ loc.pld_len # 0

\* the sysfs entries the loop creates (an attribute without a name is refused)
Published(buf, buflen) ==
    {"wlan_data" : i \in {j \in AttrIdx :
          LET loc == LocateAttr(buf, buflen, j) IN loc.found /\ IsWlanBin(j, loc)}}
    \cup
    {HcAttrTable[i].kattr : i \in {j \in AttrIdx :
          LET loc == LocateAttr(buf, buflen, j)
          IN  loc.found /\ ~IsWlanBin(j, loc) /\ HcAttrTable[j].kattr # ""}}

WlanBattr(buf, buflen, old) ==
    LET S == {j \in AttrIdx : LET loc == LocateAttr(buf, buflen, j)
                              IN  loc.found /\ IsWlanBin(j, loc)}
    IN  IF S = {} THEN old
        ELSE LET j == CHOOSE x \in S : TRUE
                 loc == LocateAttr(buf, buflen, j)
             IN  [pld_ofs |-> loc.pld_ofs, pld_len |-> loc.pld_len]

InitOutcomes == {"ok", "no_mtd", "no_mem", "read_err", "short_read", "no_kobj"}

\* a faulty variant of InitVerdict: the outer magic is not checked
InitVerdict_nomagic(outcome, data) ==
    IF outcome = "no_mtd" THEN ENODEV
    ELSE IF outcome = "no_mem" THEN ENOMEM
    ELSE IF outcome = "read_err" THEN EIO
    ELSE IF outcome = "short_read" THEN EIO
    ELSE IF outcome = "no_kobj" THEN ENOMEM
    ELSE 0

\* the first check of rb_hardconfig_init that fails: the return value, or 0
InitVerdict(outcome, data) ==
    IF outcome = "no_mtd" THEN ENODEV
    ELSE IF outcome = "no_mem" THEN ENOMEM
    ELSE IF outcome = "read_err" THEN EIO
    ELSE IF outcome = "short_read" THEN EIO
    ELSE IF RB_MAGIC_HARD # U32At(data, 0) THEN EINVAL
    ELSE IF outcome = "no_kobj" THEN ENOMEM
    ELSE 0

rb_hardconfig_init(outcome) ==
    LET ret == InitVerdict(outcome, mtd)
        size == Len(mtd)
    IN
    /\ phase = "boot"
    /\ init_ret' = ret
    /\ init_env' = outcome
    /\ hc_buflen' = IF outcome = "no_mtd" THEN hc_buflen ELSE size
    /\ IF ret # 0 THEN
          \* fail: kfree(hc_buf); hc_buf = NULL (or an early return with
          \* hc_buf still NULL)
          /\ phase' = "failed"
          /\ hc_buf' = <<>>
          /\ hc_buf_ptr' = "NULL"
          /\ heap' = heap \ {"hc_buf"}
          /\ hc_kobj' = "NULL"
          /\ UNCHANGED <<hc_attrs, hc_wlandata_battr, sysfs>>
       ELSE
          /\ phase' = "ready"
          /\ hc_buf' = mtd
          /\ hc_buf_ptr' = "heap"
          /\ heap' = heap \cup {"hc_buf"}
          /\ hc_kobj' = "kobj"
          /\ hc_attrs' = [i \in AttrIdx |->
                LET loc == LocateAttr(mtd, size, i)
                IN  [pld_ofs |-> loc.pld_ofs, pld_len |-> loc.pld_len]]
          /\ hc_wlandata_battr' = WlanBattr(mtd, size, hc_wlandata_battr)
          /\ sysfs' = Published(mtd, size)
    /\ UNCHANGED <<mtd, lzo, req>>

----------------------------------------------------------------------------
(* The inputs: flash images, verdicts of the decompressor, and what memory *)
(* that the driver never wrote may hold.                                   *)

Zeros(n) == [i \in 1..n |-> 0]

\* s, cut or padded with zeros to n bytes
Fit(s, n) == [i \in 1..n |-> IF i <= Len(s) THEN s[i] ELSE 0]

\* s without its first k bytes
Drop(s, k) == SubSeq(s, k + 1, Len(s))

\* a run-length encoded payload and the embedded tag node that locates it
RlePayload == <<5, 2>>
ErdNode == MagicErdBytes \o TagHeader(1, Len(RlePayload)) \o RlePayload

\* memory the driver did not write: zeros, the allocator's poison bytes, or
\* what is left of an earlier buffer (the tail of an ERD node)
Garbage ==
    {Zeros(GarbageLen),
     [i \in 1..GarbageLen |-> 107],
     Fit(Drop(ErdNode, 2), GarbageLen)}

AllocOutcomes == {"ok", "outbuf", "tempbuf"}

\* the records that precede the calibration record in every image
OtherTags ==
    TagHeader(RB_ID_HW_OPTIONS, 4) \o <<3, 64, 32, 0>>
    \o TagHeader(RB_ID_SERIAL_NUMBER, 2) \o <<65, 66>>
    \o TagHeader(RB_ID_MEMORY_SIZE, 3) \o <<1, 0, 0>>
    \o TagHeader(RB_ID_PRODUCT_NAME, 0)

\* an image whose calibration record declares len bytes and is followed by
\* the bytes body
Image(len, body) ==
    MagicHardBytes \o OtherTags \o TagHeader(RB_ID_WLAN_DATA, len) \o body

\* what may follow the header of the calibration record
LzorBody == MagicLzorBytes \o <<1, 2>>
LzorBigBody == MagicLzorBytes \o Zeros(ArtSize - PrefixLen + 1)
ErdBody == MagicErdBytes \o TagHeader(1, 2) \o <<7, 7>>
ErdNoTagBody == MagicErdBytes \o TagHeader(2, 1) \o <<7>>
ErdLongBody == MagicErdBytes \o TagHeader(1, 9) \o <<7>>
RawBody == <<5, 2, 6, 1>>
RawBigBody == <<5, 2, 6, 100>>

\* images with the whole body in the blob, for several declared lengths,
\* and images that end with the declared record
Whole(body, lens) == {Image(n, body) : n \in lens}
Cut(body, lens) == {Image(n, SubSeq(body, 1, n)) : n \in lens}

\* images on which the LZOR strategy reaches the decompressor
LzorImages == Whole(LzorBody, {4, 6}) \cup Cut(LzorBody, {5})
\* images on which the ERD strategy reaches the decompressor
ErdImages == Whole(ErdBody, {8, 10})
\* all other images: short records, records that run off the blob, raw
\* records, records refused before the decompressor, no calibration record,
\* a wrong outer magic
PlainImages ==
    Whole(LzorBody, {0, 1, 2, 3, 7})
    \cup Whole(LzorBigBody, {Len(LzorBigBody), Len(LzorBigBody) - 1})
    \cup Whole(ErdBody, {0, 2, 3, 5, 11}) \cup Cut(ErdBody, {2})
    \cup Whole(ErdNoTagBody, {9}) \cup Whole(ErdLongBody, {9})
    \cup Whole(RawBody, {0, 1, 2, 3, 4, 5}) \cup Cut(RawBody, {1, 3})
    \cup Whole(RawBigBody, {4})
    \cup {MagicHardBytes \o OtherTags}
    \cup {MagicSoftBytes \o OtherTags \o TagHeader(RB_ID_WLAN_DATA, 4) \o RawBody}

\* decompressed blobs of the LZOR format
ScratchAt0 == ErdNode
ScratchAt4 == <<9, 9, 9, 9>> \o ErdNode
ScratchOdd == <<9, 9>> \o ErdNode
ScratchNoTag == MagicErdBytes \o TagHeader(2, 0)
ScratchLong == MagicErdBytes \o TagHeader(1, 9) \o RlePayload
ScratchBadRle == MagicErdBytes \o TagHeader(1, 2) \o <<5, 100>>

\* the prefixes of s that are at least n bytes long
Prefixes(s, n) == {SubSeq(s, 1, m) : m \in n..Len(s)}

\* the output always begins with what the priming prefix expands to (the
\* first word of every blob above), whatever the record holds
LzorOutputs ==
    Prefixes(ScratchAt4, 4)
    \cup {ScratchAt0, ScratchOdd, ScratchNoTag, ScratchLong, ScratchBadRle}

LzorVerdicts ==
    [ret : {LZO_E_OK, LZO_E_INPUT_NOT_CONSUMED}, out : LzorOutputs]
    \cup [ret : {LZO_E_LOOKBEHIND_OVERRUN}, out : {<<>>, <<9, 9>>}]

ErdVerdicts ==
    [ret : {LZO_E_OK}, out : {<<>>, <<7, 8, 9>>}]
    \cup [ret : {LZO_E_INPUT_NOT_CONSUMED, LZO_E_LOOKBEHIND_OVERRUN},
          out : {<<7, 8>>}]

NoVerdict == [ret |-> LZO_E_OK, out |-> <<>>]

Boots ==
    (LzorImages \X LzorVerdicts) \cup (ErdImages \X ErdVerdicts)
    \cup (PlainImages \X {NoVerdict})

----------------------------------------------------------------------------
(* The state machine.                                                      *)

Init ==
    /\ phase = "boot"
    /\ \E b \in Boots : mtd = b[1] /\ lzo = b[2]
    /\ hc_buf = <<>>
    /\ hc_buf_ptr = "NULL"
    /\ hc_buflen = 0
    /\ hc_kobj = "NULL"
    /\ hc_attrs = [i \in AttrIdx |-> [pld_ofs |-> 0, pld_len |-> 0]]
    /\ hc_wlandata_battr = [pld_ofs |-> 0, pld_len |-> 0]
    /\ sysfs = {}
    /\ heap = {}
    /\ init_ret = 0
    /\ init_env = "none"
    /\ req = [op |-> "none", handler |-> FALSE, ret |-> 0, oops |-> FALSE]

Frame == UNCHANGED <<phase, mtd, lzo, hc_buf, hc_buf_ptr, hc_buflen, hc_kobj,
                     hc_attrs, hc_wlandata_battr, sysfs, heap, init_ret,
                     init_env>>

\* module init: the environment decides what fails
Boot == \E outcome \in InitOutcomes : rb_hardconfig_init(outcome)

\* a read of the sysfs attribute of entry i; only an entry whose kattr has
\* a name can be asked for
ShowAttr ==
    /\ phase = "ready"
    /\ \E i \in {j \in AttrIdx : HcAttrTable[j].kattr # ""} :
          IF HcAttrTable[i].kattr \in sysfs
          THEN \E g \in (IF hc_attrs[i].pld_ofs + hc_attrs[i].pld_len > hc_buflen
                         THEN Garbage ELSE {Zeros(GarbageLen)}) :
                   req' = hc_attr_show(i, g)
          ELSE req' = NoSuchAttr(i)
    /\ Frame

\* a read of the wlan_data binary attribute
ReadWlanData ==
    /\ phase = "ready"
    /\ IF "wlan_data" \in sysfs
       THEN \E off \in 0..MaxOff, count \in 0..MaxCount,
               g \in Garbage, alloc \in AllocOutcomes :
              req' = hc_wlan_data_bin_read(off, count, g, alloc)
       ELSE \E off \in 0..MaxOff, count \in 0..MaxCount :
              req' = NoSuchBin(off, count)
    /\ Frame

Next == Boot \/ ShowAttr \/ ReadWlanData

Spec == Init /\ [][Next]_vars

----------------------------------------------------------------------------
(* Properties.                                                             *)

\* the last request ran hc_wlan_data_unpack
Unpacked == req.op = "bin_read" /\ req.handler /\ req.unpacked

\* C1: a call of unpack on a record of length > 0 fails with -EIO before it
\* reads anything when the record runs off the blob, and otherwise reads no
\* byte outside [record_offset, record_offset + record_length), the four
\* bytes of the magic included.
C1_ReadsStayInRecord ==
    Unpacked =>
        LET u == req.u
        IN  IF u.tofs + u.tlen > hc_buflen
            THEN u.ret = EIO /\ u.reads = {}
            ELSE u.reads \subseteq Range(u.tofs, u.tlen)

\* the part of C1 that the code keeps: a record that runs off the blob is
\* refused with -EIO before any byte is read
C1_OutOfBoundsRefused ==
    Unpacked /\ req.u.tofs + req.u.tlen > hc_buflen =>
        /\ req.u.ret = EIO
        /\ req.u.reads = {}
        /\ req.u.strategy = "none"

\* what each strategy leaves in the log of a call
RanLzor(u) == u.ret = EFBIG \/ u.temp # "none"
RanErd(u) == u.tag_called /\ u.temp = "none"
RanRaw(u) == u.rle_called /\ ~u.tag_called /\ u.temp = "none"

\* C2: a call of unpack that passes the bounds check runs exactly one
\* strategy, chosen by the 32-bit word at the record's offset alone: LZOR
\* and ERD get (offset + 4, length - 4), anything else is run-length
\* decoded whole, from the unchanged offset and length, into the output.
C2_DispatchByMagic ==
    Unpacked /\ req.u.tofs + req.u.tlen <= hc_buflen =>
        LET u == req.u
            stripped == /\ u.s_ofs = u.tofs + MagicSize
                        /\ u.s_len = SubSizeT(u.tlen, MagicSize)
        IN  /\ u.tofs + MagicSize <= hc_buflen => u.magic = U32At(hc_buf, u.tofs)
            /\ u.magic = RB_MAGIC_LZOR =>
                   RanLzor(u) /\ ~RanErd(u) /\ ~RanRaw(u)
                   /\ u.strategy = "lzor" /\ stripped
            /\ u.magic = RB_MAGIC_ERD =>
                   RanErd(u) /\ ~RanLzor(u) /\ ~RanRaw(u)
                   /\ u.strategy = "erd" /\ stripped
            /\ u.magic \notin {RB_MAGIC_LZOR, RB_MAGIC_ERD} =>
                   /\ RanRaw(u) /\ ~RanLzor(u) /\ ~RanErd(u)
                   /\ u.strategy = "raw"
                   /\ u.s_ofs = u.tofs /\ u.s_len = u.tlen
                   /\ LET rr == routerboot_rle_decode(
                                    Bytes(hc_buf, u.tofs, u.tlen), RB_ART_SIZE)
                      IN  /\ u.ret = rr.ret
                          /\ Bytes(u.outbuf, 0, Len(rr.out)) = rr.out

\* C2 witness: an LZOR record and an ERD record of at least 4 bytes, each
\* unpacked by its strategy
C2_WitnessLzor ==
    Unpacked /\ req.u.magic = RB_MAGIC_LZOR /\ req.u.tlen >= 4
    /\ req.u.ret = 0 /\ ~req.oops /\ req.u.rle_called

\* C3: in the ERD strategy a missing embedded tag 1 fails the call with the
\* scanner's error and a tag whose length exceeds the remaining record
\* bytes fails it with -EINVAL, in both cases without calling the
\* decompressor or writing the output buffer; the decompressor runs only
\* after both checks and its verdict is the call's return value.
C3_ErdChecksBeforeDecompress ==
    Unpacked /\ req.u.strategy = "erd" /\ ~req.u.oops =>
        LET u == req.u
            untouched == /\ ~u.lzo_called
                         /\ ~u.out_written
                         /\ \A i \in 1..Len(u.outbuf) : u.outbuf[i] = UNINIT
        IN  /\ u.tag_called
            /\ u.tag_ret # 0 => u.ret = ENOENT /\ untouched
            /\ u.tag_ret = 0 /\ u.tag_len > u.s_len => u.ret = EINVAL /\ untouched
            /\ u.lzo_called =>
                   /\ u.tag_ret = 0
                   /\ u.tag_len <= u.s_len
                   /\ u.ret = lzo.ret
                   /\ req.ret = (IF u.ret # 0 THEN u.ret ELSE req.ret)
            /\ u.tag_ret = 0 /\ u.tag_len <= u.s_len => u.lzo_called
            \* the scanner's answer is that for the record's remaining bytes
            /\ u.tlen >= MagicSize =>
                   LET t == routerboot_tag_find(hc_buf, u.tofs + MagicSize,
                                                u.tlen - MagicSize, 1)
                   IN  u.tag_ret = t.ret /\ (t.ret = 0 => u.tag_len = t.len)

\* C3 witness: an ERD record whose embedded tag declares more bytes than
\* remain was refused with -EINVAL
C3_WitnessInvalidLength ==
    Unpacked /\ req.u.strategy = "erd" /\ req.u.tlen >= MagicSize
    /\ req.u.tag_ret = 0 /\ req.u.tag_len > req.u.s_len /\ req.ret = EINVAL

\* a missing embedded tag was reported
C3_WitnessMissingTag ==
    Unpacked /\ req.u.strategy = "erd" /\ req.u.tlen >= MagicSize
    /\ req.u.tag_ret = ENOENT /\ req.ret = ENOENT

\* nothing of the blob is published or retained
NothingPublished ==
    /\ sysfs = {}
    /\ hc_kobj = "NULL"
    /\ \A i \in AttrIdx : hc_attrs[i] = [pld_ofs |-> 0, pld_len |-> 0]
    /\ hc_wlandata_battr = [pld_ofs |-> 0, pld_len |-> 0]

\* the blob buffer is released and hc_buf is NULL
BlobReleased == hc_buf_ptr = "NULL" /\ hc_buf = <<>> /\ "hc_buf" \notin heap

\* the flash read delivered the whole partition
ReadWhole == init_env \in {"ok", "no_kobj"}

\* C4: if the flash read fails or is short, or the blob does not start with
\* RB_MAGIC_HARD, rb_hardconfig_init returns an error (-EINVAL for the
\* magic), publishes nothing, frees the blob and clears hc_buf; tags are
\* located and published only after the three checks passed.
C4_InitAllOrNothing ==
    phase # "boot" =>
        /\ init_env \in {"read_err", "short_read"} =>
               phase = "failed" /\ init_ret < 0 /\ NothingPublished /\ BlobReleased
        /\ ReadWhole /\ U32At(mtd, 0) # RB_MAGIC_HARD =>
               /\ phase = "failed" /\ init_ret = EINVAL
               /\ NothingPublished /\ BlobReleased
        /\ ~NothingPublished =>
               /\ init_env = "ok" /\ init_ret = 0 /\ phase = "ready"
               /\ U32At(mtd, 0) = RB_MAGIC_HARD
               /\ hc_buf = mtd /\ hc_buflen = Len(mtd)
        /\ init_env = "ok" /\ U32At(mtd, 0) = RB_MAGIC_HARD =>
               /\ phase = "ready" /\ init_ret = 0
               /\ sysfs = Published(mtd, Len(mtd))

\* C4 witness: a blob without the outer magic was rejected with -EINVAL
C4_WitnessBadMagic ==
    phase = "failed" /\ ReadWhole /\ U32At(mtd, 0) # RB_MAGIC_HARD
    /\ init_ret = EINVAL

\* index of the calibration entry in hc_attrs
WlanIdx == CHOOSE i \in AttrIdx : HcAttrTable[i].tag_id = RB_ID_WLAN_DATA

\* the blob holds a calibration record of length zero
ZeroLengthWlan ==
    LET loc == LocateAttr(mtd, Len(mtd), WlanIdx)
    IN  loc.found /\ loc.pld_len = 0

\* C5: with a zero-length calibration record every render or decode request
\* for the calibration attribute reports -ENOENT without a renderer or the
\* unpacking pipeline running; a render request reports -ENOENT exactly
\* when the retained length of its attribute is 0, and every attribute with
\* a non-zero length is rendered by the renderer its table entry defines.
C5_AbsentIsNotFound ==
    phase = "ready" =>
        /\ ZeroLengthWlan /\ req.op = "bin_read" =>
               req.ret = ENOENT /\ ~req.unpacked /\ req.u = UnpackNone(RB_ART_SIZE)
        /\ req.op = "show" => req.attr # WlanIdx
        /\ req.op = "show" =>
               LET a == hc_attrs[req.attr]
                   e == HcAttrTable[req.attr]
               IN  /\ ~req.oops
                   /\ (req.ret = ENOENT) <=> (a.pld_len = 0)
                   /\ a.pld_len = 0 => req.renderer = "none"
                   /\ req.renderer # "none" =>
                          req.renderer = e.tshow /\ e.tshow # "NULL"
                   /\ a.pld_len # 0 /\ req.attr # WlanIdx =>
                          /\ req.renderer = e.tshow
                          /\ a.pld_ofs + a.pld_len <= hc_buflen
                          /\ LET t == CallTshow(e.tshow,
                                          Bytes(hc_buf, a.pld_ofs, a.pld_len),
                                          a.pld_len)
                             IN  req.ret = t.ret /\ req.text = t.text

\* C5 witness: with a zero-length calibration record a decode request was
\* answered -ENOENT
C5_WitnessZeroLength ==
    phase = "ready" /\ ZeroLengthWlan /\ req.op = "bin_read" /\ req.ret = ENOENT

\* with a zero-length calibration record another attribute was rendered
C5_WitnessOthersRender ==
    phase = "ready" /\ ZeroLengthWlan /\ req.op = "show"
    /\ req.renderer = "hwoptions" /\ req.ret > 0

\* C6: a read of wlan_data at offset off for count bytes, after a decode of
\* n bytes, returns 0 bytes when off >= n and otherwise min(count, n - off)
\* bytes, the decoded bytes from off on; no byte at or after n is copied.
\* A failed decode returns the decoder's error and copies nothing.
C6_ReadWithinDecoded ==
    Unpacked /\ ~req.oops =>
        LET u == req.u
            n == u.outlen
            decoded == SubSeq(u.outbuf, 1, n)
        IN  IF u.ret # 0 THEN req.ret = u.ret /\ req.copied = <<>>
            ELSE /\ n <= RB_ART_SIZE
                 /\ IF req.off >= n THEN req.ret = 0 /\ req.copied = <<>>
                    ELSE /\ req.ret = Min(req.count, n - req.off)
                         /\ Len(req.copied) = req.ret
                         /\ req.copied = SubSeq(decoded, req.off + 1,
                                                req.off + req.ret)

\* C6 witness: a read that asked for more than was left got the rest
C6_WitnessClamped ==
    Unpacked /\ ~req.oops /\ req.u.ret = 0 /\ req.off > 0
    /\ req.off < req.u.outlen /\ req.off + req.count > req.u.outlen
    /\ req.ret = req.u.outlen - req.off

\* a read at or past the end of the decoded data got 0 bytes
C6_WitnessPastEnd ==
    Unpacked /\ ~req.oops /\ req.u.ret = 0 /\ req.u.outlen > 0
    /\ req.off >= req.u.outlen /\ req.ret = 0

\* what a call of unpack returns: its return value and, on success, the
\* decoded bytes
UnpackResult(u) ==
    [oops |-> u.oops, ret |-> u.ret,
     out |-> IF ~u.oops /\ u.ret = 0 THEN SubSeq(u.outbuf, 1, u.outlen) ELSE <<>>]

\* the blob and the retained offset/length pairs stay as they are
BlobUnchanged ==
    UNCHANGED <<hc_buf, hc_buf_ptr, hc_buflen, hc_attrs, hc_wlandata_battr>>

\* C7: after initialization no request changes the blob, its length or a
\* retained offset/length pair, and two calls of unpack on the same record
\* with the same capacity (and the same luck with kmalloc) return the same
\* value and the same output bytes.
C7_UnpackIdempotent ==
    [][phase = "ready" =>
          /\ BlobUnchanged
          /\ (Unpacked /\ Unpacked' /\ req.alloc = req'.alloc) =>
                 UnpackResult(req'.u) = UnpackResult(req.u)]_vars

\* the part of C7 that the code keeps: requests leave the blob and the
\* retained offset/length pairs alone
C7_RequestsLeaveBlobAlone == [][phase = "ready" => BlobUnchanged]_vars

\* C8: in the LZOR strategy the concatenation never writes more than the
\* capacity into the output buffer: whenever prefix length + remaining
\* record length exceeds the capacity the call fails with -EFBIG before the
\* scratch buffer is allocated and before anything is written.
C8_ConcatFitsOutbuf ==
    Unpacked /\ req.u.strategy = "lzor" =>
        LET u == req.u
            cap == Len(u.outbuf)
            tooBig == u.s_len > cap - PrefixLen
        IN  /\ u.out_written => u.concat_payload <= cap - u.concat_prefix
            /\ tooBig => u.ret = EFBIG /\ u.temp = "none" /\ ~u.out_written

\* the part of C8 that the code keeps: a record of at least 4 bytes that
\* does not fit behind the prefix is refused with -EFBIG
C8_BigRecordRefused ==
    Unpacked /\ req.u.strategy = "lzor" /\ req.u.tlen >= MagicSize
    /\ req.u.s_len > Len(req.u.outbuf) - PrefixLen =>
        req.u.ret = EFBIG /\ req.u.temp = "none" /\ ~req.u.out_written

\* C9: whenever the alignment scan matches at offset k of a scratch buffer
\* filled with d bytes, k is a multiple of 4 with k + 4 <= d and the tail
\* given to the tag scanner starts at k + 4 and is d - k - 4 >= 0 bytes
\* long.
C9_TailInsideFilled ==
    Unpacked /\ req.u.matched =>
        LET u == req.u
        IN  /\ u.k % 4 = 0
            /\ u.k + 4 <= u.d
            /\ u.tail_ofs = u.k + 4
            /\ u.tail_len = u.d - u.k - 4
            /\ u.tail_len >= 0
            /\ u.tail_ofs + u.tail_len <= u.d

\* C10: the alignment scan probes offsets 0, 4, 8, ... in order, probes no
\* word that is not wholly inside the first d bytes, makes at most d/4
\* (rounded up) probes and fails with -ENODATA when it reaches the end of
\* the filled region without a match.
C10_ScanBounded ==
    Unpacked /\ req.u.scanned =>
        LET u == req.u
            n == Len(u.probes)
        IN  /\ \A i \in 1..n : u.probes[i] = 4 * (i - 1)
            /\ \A i \in 1..n : u.probes[i] + 4 <= u.d
            /\ n <= (u.d + 3) \div 4
            /\ ~u.matched => u.ret = ENODATA

\* the part of C10 that the code keeps: the scan probes 0, 4, 8, ... and
\* stops after at most d/4 (rounded up) probes, or one probe when d = 0
C10_ScanTerminates ==
    Unpacked /\ req.u.scanned =>
        LET u == req.u
            n == Len(u.probes)
        IN  /\ \A i \in 1..n : u.probes[i] = 4 * (i - 1)
            /\ \A i \in 1..n : u.probes[i] < u.d \/ i = 1
            /\ n <= IF u.d = 0 THEN 1 ELSE (u.d + 3) \div 4
            /\ ~u.matched => u.ret = ENODATA

\* C11: in the LZOR strategy LZO_E_INPUT_NOT_CONSUMED does not fail the
\* call: the scan runs, the call never returns the decompressor's signal,
\* and when scan, tag scanner and run-length decoder succeed it returns 0
\* with the decoded bytes.  Any other return value but LZO_E_OK is the
\* call's return value, and then neither the scan, the tag scanner nor the
\* run-length decoder runs.
C11_EofIsNotFatal ==
    Unpacked /\ req.u.strategy = "lzor" /\ req.u.lzo_called /\ ~req.u.oops =>
        LET u == req.u
        IN  /\ u.lzo_ret = lzo.ret
            /\ u.lzo_ret = LZO_E_INPUT_NOT_CONSUMED =>
                   /\ u.scanned
                   /\ u.ret # LZO_E_INPUT_NOT_CONSUMED
                   /\ u.matched => u.tag_called
                   /\ u.matched /\ u.tag_ret = 0 /\ u.tag_len <= u.tail_len =>
                          u.rle_called
                   /\ u.rle_called /\ u.tail_ofs + u.tag_ofs + u.tag_len <= u.d =>
                          LET rr == routerboot_rle_decode(
                                        Bytes(lzo.out, u.tail_ofs + u.tag_ofs,
                                              u.tag_len), RB_ART_SIZE)
                          IN  /\ u.ret = rr.ret
                              /\ rr.ret = 0 =>
                                     /\ u.outlen = Len(rr.out)
                                     /\ SubSeq(u.outbuf, 1, u.outlen) = rr.out
                                     /\ req.ret >= 0
            /\ u.lzo_ret \notin {LZO_E_OK, LZO_E_INPUT_NOT_CONSUMED} =>
                   /\ u.ret = u.lzo_ret /\ req.ret = u.lzo_ret
                   /\ ~u.scanned /\ u.probes = <<>>
                   /\ ~u.tag_called /\ ~u.rle_called

\* C11 witness: the decompressor reported LZO_E_INPUT_NOT_CONSUMED and the
\* call went on to decode the calibration data and returned 0
C11_WitnessEofThenSuccess ==
    Unpacked /\ req.u.strategy = "lzor" /\ ~req.u.oops
    /\ req.u.lzo_ret = LZO_E_INPUT_NOT_CONSUMED
    /\ req.u.matched /\ req.u.k + 4 <= req.u.d /\ req.u.rle_called
    /\ req.u.ret = 0 /\ req.u.outlen > 0

\* a failure of the decompressor ended the call
C11_WitnessFatal ==
    Unpacked /\ req.u.strategy = "lzor" /\ ~req.u.oops
    /\ req.u.lzo_ret = LZO_E_LOOKBEHIND_OVERRUN /\ req.ret = LZO_E_LOOKBEHIND_OVERRUN

\* the last request ran hc_wlan_data_bin_read and the handler returned
BinReadReturned == req.op = "bin_read" /\ req.handler /\ ~req.oops

\* C12: every buffer a decode request allocates is released exactly once,
\* on every path the request takes: tempbuf of the LZOR strategy on success
\* and on every failure after kmalloc, outbuf on a failed unpack, on a read
\* past the end and on a successful read; nothing the request allocated
\* stays allocated after it.
C12_NoBufferLeftAllocated ==
    req.op = "bin_read" /\ req.handler =>
        /\ req.out = "heap" => req.out_frees = 1
        /\ req.out # "heap" => req.out_frees = 0
        /\ req.u.temp = "heap" => req.u.temp_frees = 1
        /\ req.u.temp = "none" => req.u.temp_frees = 0

\* the part of C12 that the code keeps: a request that returns has released
\* what it allocated, each buffer once; only the LZOR strategy allocates a
\* scratch buffer, and between requests the heap holds the blob alone
C12_BuffersReleasedOnce ==
    /\ phase = "ready" => heap = {"hc_buf"}
    /\ BinReadReturned =>
           LET u == req.u
           IN  /\ req.out = "heap" => req.out_frees = 1
               /\ req.out # "heap" => req.out_frees = 0 /\ ~req.unpacked
               /\ req.unpacked => req.out = "heap"
               /\ u.temp = "heap" => u.temp_frees = 1
               /\ u.temp = "none" => u.temp_frees = 0
               /\ u.temp # "none" => u.strategy = "lzor" /\ req.unpacked
               /\ u.strategy = "lzor" /\ u.ret # EFBIG => u.temp # "none"

\* a successful LZOR read released tempbuf and outbuf
C12_WitnessLzorSuccess ==
    BinReadReturned /\ req.u.strategy = "lzor" /\ req.u.rle_called
    /\ req.u.ret = 0 /\ req.ret > 0
    /\ req.u.temp = "heap" /\ req.u.temp_frees = 1
    /\ req.out = "heap" /\ req.out_frees = 1

\* the failures after the allocation of tempbuf: decompression failure,
\* magic not found, embedded tag missing, invalid length, decode failure
C12_WitnessLzoFailure ==
    BinReadReturned /\ req.u.temp = "heap" /\ req.u.temp_frees = 1
    /\ req.u.lzo_ret = LZO_E_LOOKBEHIND_OVERRUN /\ req.out_frees = 1
C12_WitnessNoMagic ==
    BinReadReturned /\ req.u.temp = "heap" /\ req.u.temp_frees = 1
    /\ req.u.scanned /\ ~req.u.matched /\ req.ret = ENODATA /\ req.out_frees = 1
C12_WitnessNoTag ==
    BinReadReturned /\ req.u.temp = "heap" /\ req.u.temp_frees = 1
    /\ req.u.matched /\ req.u.tag_ret # 0 /\ req.ret = req.u.tag_ret
    /\ req.out_frees = 1
C12_WitnessBadLength ==
    BinReadReturned /\ req.u.temp = "heap" /\ req.u.temp_frees = 1
    /\ req.u.matched /\ req.u.tag_ret = 0 /\ req.u.tag_len > req.u.tail_len
    /\ req.ret = EINVAL /\ req.out_frees = 1
C12_WitnessBadRle ==
    BinReadReturned /\ req.u.temp = "heap" /\ req.u.temp_frees = 1
    /\ req.u.rle_called /\ req.u.ret # 0 /\ req.out_frees = 1

\* a read past the end of the decoded data released outbuf
C12_WitnessPastEnd ==
    BinReadReturned /\ req.unpacked /\ req.u.ret = 0
    /\ req.off >= req.u.outlen /\ req.ret = 0 /\ req.out_frees = 1

\* C13: when kmalloc of tempbuf fails the LZOR strategy returns -ENOMEM at
\* once: the prefix is not written into outbuf, the decompressor is not
\* called and nothing is read or written through the NULL tempbuf.
C13_NoScratchNoWork ==
    Unpacked /\ req.u.strategy = "lzor" /\ req.u.temp = "NULL" =>
        /\ req.u.ret = ENOMEM /\ req.ret = ENOMEM
        /\ ~req.u.out_written /\ req.u.concat_prefix = 0
        /\ ~req.u.lzo_called
        /\ ~req.u.scanned
        /\ ~req.u.oops

\* what the code does instead when the decompressor fails before it writes:
\* the prefix and the record are in outbuf, the decompressor was called
\* with the NULL tempbuf and its error, not -ENOMEM, is returned
C13_NullScratchReachesDecompressor ==
    Unpacked /\ req.u.strategy = "lzor" /\ req.u.temp = "NULL" /\ ~req.u.oops =>
        /\ req.u.out_written /\ req.u.concat_prefix = PrefixLen
        /\ req.u.lzo_called /\ req.u.d = 0
        /\ req.u.ret = req.u.lzo_ret /\ req.u.ret # ENOMEM

====
